---- MODULE Spec2Model ----
(***************************************************************************)
(* Model of the NYC parking-citation cleaning pipeline                     *)
(* (src/src/data_cleaner.py, class ParkingDataCleaner).                    *)
(*                                                                         *)
(* A table (pandas DataFrame) is a sequence of rows; a row is a record of  *)
(* its columns plus the pandas index label it received at load.  A cell    *)
(* that may be missing (NaN / None / NaT / <NA>) is an option value:       *)
(* None is the empty tuple, Some(v) the one-element tuple <<v>>.  Text is  *)
(* a tuple of one-character strings, so that strip, slicing, zfill, split  *)
(* and int() are computed character by character as Python computes them. *)
(*                                                                         *)
(* Columns the pipeline creates but that no property below reads (year,    *)
(* month, day_of_week, week_of_year, quarter, is_weekend, precinct_numeric,*)
(* reduction_amount, net_fine) are not carried in the rows.                *)
(***************************************************************************)
EXTENDS Integers, Sequences, FiniteSets, TLC

VARIABLES
    file,             \* the CSV handed to run_full_pipeline: readable?, rows
    raw_df,           \* ParkingDataCleaner.raw_df (None or a table)
    clean_df,         \* ParkingDataCleaner.clean_df (None or a table)
    removed_rows,     \* ParkingDataCleaner.removed_rows
    cleaning_report,  \* ParkingDataCleaner.cleaning_report
    pc,               \* position inside run_full_pipeline
    stages,           \* the methods run_full_pipeline has called so far
    ret,              \* what run_full_pipeline returned
    cdp_ret,          \* what clean_data_pipeline returned
    saved_csv,        \* the table save_cleaned_data wrote
    run,              \* runs of run_full_pipeline started on this cleaner
    report_html,      \* what the last rendering of the removal report gave
    tm,               \* time column under test: the moment it encodes
    time_col,         \* time column under test: the violation_time strings
    time_out,         \* time column under test: the derived columns
    state_hist,       \* state column under test: the column and its normalizations
    mr,               \* the frame of a call of _make_request
    lp                \* the frame of a call of load_paginated

vars == <<file, raw_df, clean_df, removed_rows, cleaning_report, pc, stages,
          ret, cdp_ret, saved_csv, run, report_html, tm, time_col, time_out,
          state_hist, mr, lp>>

pipeVars == <<file, raw_df, clean_df, removed_rows, cleaning_report, pc,
              stages, ret, cdp_ret, saved_csv, run, report_html>>
timeVars == <<tm, time_col, time_out>>
stateVars == <<state_hist>>
loaderVars == <<mr, lp>>
otherVars == <<timeVars, stateVars, loaderVars>>

----------------------------------------------------------------------------
(* Bounds of the model *)

MaxRows == 2
MaxHour == 23
MaxMinute == 59
MaxRetries == 3
MaxTotalRecords == 4
MaxPerPage == 3

----------------------------------------------------------------------------
(* Option values and text *)

None == <<>>
Some(v) == <<v>>
IsNull(o) == o = <<>>
NotNull(o) == o # <<>>
Val(o) == o[1]

Min(a, b) == IF a < b THEN a ELSE b

Digits == {"0", "1", "2", "3", "4", "5", "6", "7", "8", "9"}

DigitVal(c) ==
    CASE c = "0" -> 0 [] c = "1" -> 1 [] c = "2" -> 2 [] c = "3" -> 3
      [] c = "4" -> 4 [] c = "5" -> 5 [] c = "6" -> 6 [] c = "7" -> 7
      [] c = "8" -> 8 [] c = "9" -> 9

DigitChar(d) ==
    CASE d = 0 -> "0" [] d = 1 -> "1" [] d = 2 -> "2" [] d = 3 -> "3"
      [] d = 4 -> "4" [] d = 5 -> "5" [] d = 6 -> "6" [] d = 7 -> "7"
      [] d = 8 -> "8" [] d = 9 -> "9"

\* str.upper() on one character
UpperChar(c) ==
    CASE c = "a" -> "A" [] c = "b" -> "B" [] c = "c" -> "C" [] c = "d" -> "D"
      [] c = "e" -> "E" [] c = "f" -> "F" [] c = "g" -> "G" [] c = "h" -> "H"
      [] c = "i" -> "I" [] c = "j" -> "J" [] c = "k" -> "K" [] c = "l" -> "L"
      [] c = "m" -> "M" [] c = "n" -> "N" [] c = "o" -> "O" [] c = "p" -> "P"
      [] c = "q" -> "Q" [] c = "r" -> "R" [] c = "s" -> "S" [] c = "t" -> "T"
      [] c = "u" -> "U" [] c = "v" -> "V" [] c = "w" -> "W" [] c = "x" -> "X"
      [] c = "y" -> "Y" [] c = "z" -> "Z" [] OTHER -> c

upper(s) == [i \in 1..Len(s) |-> UpperChar(s[i])]

Whitespace == {" "}

RECURSIVE lstrip(_)
lstrip(s) == IF s # <<>> /\ Head(s) \in Whitespace THEN lstrip(Tail(s)) ELSE s

RECURSIVE rstrip(_)
rstrip(s) ==
    IF s # <<>> /\ s[Len(s)] \in Whitespace
    THEN rstrip(SubSeq(s, 1, Len(s) - 1))
    ELSE s

\* str.strip()
strip(s) == rstrip(lstrip(s))

\* Python slice s[a:b] for 0 <= a <= b
Slice(s, a, b) == SubSeq(s, a + 1, Min(b, Len(s)))

\* s[-n:]
LastChars(s, n) == IF Len(s) <= n THEN s ELSE SubSeq(s, Len(s) - n + 1, Len(s))

RECURSIVE DigitsValue(_)
DigitsValue(s) ==
    IF s = <<>> THEN 0
    ELSE 10 * DigitsValue(SubSeq(s, 1, Len(s) - 1)) + DigitVal(s[Len(s)])

\* int(text): surrounding whitespace and one sign are accepted, then one or
\* more decimal digits; anything else is a ValueError (None here).
py_int(s) ==
    LET t == strip(s)
        signed == t # <<>> /\ Head(t) \in {"+", "-"}
        body == IF signed THEN Tail(t) ELSE t
    IN  IF body = <<>> \/ \E i \in 1..Len(body) : body[i] \notin Digits
        THEN None
        ELSE IF signed /\ Head(t) = "-"
             THEN Some(0 - DigitsValue(body))
             ELSE Some(DigitsValue(body))

\* str.zfill(width): zeros go after a leading sign
zfill(s, width) ==
    LET zeros == [i \in 1..(width - Len(s)) |-> "0"]
    IN  IF Len(s) >= width THEN s
        ELSE IF s # <<>> /\ Head(s) \in {"+", "-"}
             THEN <<Head(s)>> \o zeros \o Tail(s)
             ELSE zeros \o s

RECURSIVE NatDigits(_)
NatDigits(n) ==
    IF n < 10 THEN <<DigitChar(n)>>
    ELSE NatDigits(n \div 10) \o <<DigitChar(n % 10)>>

\* format(n, "02d"): at least two characters, the sign counts as one
Format02d(n) ==
    IF n < 0 THEN <<"-">> \o NatDigits(0 - n)
    ELSE IF n < 10 THEN <<"0">> \o NatDigits(n)
    ELSE NatDigits(n)

\* position of the first c in s, 0 when there is none
RECURSIVE FindFrom(_, _, _)
FindFrom(s, c, i) ==
    IF i > Len(s) THEN 0
    ELSE IF s[i] = c THEN i
    ELSE FindFrom(s, c, i + 1)

Find(s, c) == FindFrom(s, c, 1)

\* s.split(c)[0]
SplitFirst(s, c) ==
    IF Find(s, c) = 0 THEN s ELSE SubSeq(s, 1, Find(s, c) - 1)

\* s.split(c)[1], for s that contains c
SplitSecond(s, c) ==
    LET rest == SubSeq(s, Find(s, c) + 1, Len(s))
    IN  SplitFirst(rest, c)

----------------------------------------------------------------------------
(* clean_dates: violation_time parsing, data_cleaner.py lines 160-225 *)

MeridiemLetters == {"A", "P", "a", "p"}

\* the "HH:mm" branch: <<int(parts[0]), int(parts[1])>>
ParseColonDigits(time_digits) ==
    <<py_int(SplitFirst(time_digits, ":")), py_int(SplitSecond(time_digits, ":"))>>

\* mutant of ParsePlainDigits: the minutes are sliced as if a colon were there
ParsePlainDigits_ColonOffsets(time_digits) ==
    LET padded == zfill(time_digits, 4)
    IN  <<py_int(Slice(padded, 0, 2)), py_int(Slice(padded, 3, 5))>>

\* the "HHmm" branch: zero-pad to four, first two are hours, next two minutes
ParsePlainDigits(time_digits) ==
    LET padded == zfill(time_digits, 4)
    IN  <<py_int(Slice(padded, 0, 2)), py_int(Slice(padded, 2, 4))>>

\* mutant of To24Hour: P adds 12 to every hour, A leaves every hour alone
To24Hour_NoTwelveRule(meridiem, hours) ==
    IF meridiem = "P" THEN hours + 12 ELSE hours

\* "Convert to 24-hour format if needed"; meridiem "" stands for None
To24Hour(meridiem, hours) ==
    IF meridiem = "P" /\ hours # 12 THEN hours + 12
    ELSE IF meridiem = "A" /\ hours = 12 THEN 0
    ELSE hours

parse_time(time_str) ==
    IF IsNull(time_str) THEN None
    ELSE
      LET s == strip(Val(time_str))
      IN  IF s = <<>> THEN None            \* time_str[-1] raises IndexError
          ELSE
            LET last == s[Len(s)]
                hasMeridiem == last \in MeridiemLetters
                meridiem == IF hasMeridiem THEN UpperChar(last) ELSE ""
                time_digits == IF hasMeridiem THEN SubSeq(s, 1, Len(s) - 1) ELSE s
                hm == IF Find(time_digits, ":") # 0
                      THEN ParseColonDigits(time_digits)
                      ELSE ParsePlainDigits(time_digits)
            IN  IF IsNull(hm[1]) \/ IsNull(hm[2]) THEN None   \* int() raised
                ELSE Some(Format02d(To24Hour(meridiem, Val(hm[1])))
                          \o <<":">> \o Format02d(Val(hm[2])))

\* mutant of violation_hour_of: .str[1], the minutes
violation_hour_of_MinuteComponent(parsed) ==
    IF IsNull(parsed) THEN None ELSE py_int(SplitSecond(Val(parsed), ":"))

\* violation_time_parsed.str.split(':').str[0].astype('Int64')
violation_hour_of(parsed) ==
    IF IsNull(parsed) THEN None ELSE py_int(SplitFirst(Val(parsed), ":"))

\* mutant of categorize_time: 5 <= hour <= 12 is Morning
categorize_time_NoonIsMorning(hour) ==
    IF IsNull(hour) THEN "Unknown"
    ELSE IF 5 <= Val(hour) /\ Val(hour) <= 12 THEN "Morning"
    ELSE IF 12 <= Val(hour) /\ Val(hour) < 17 THEN "Afternoon"
    ELSE IF 17 <= Val(hour) /\ Val(hour) < 21 THEN "Evening"
    ELSE "Night"

categorize_time(hour) ==
    IF IsNull(hour) THEN "Unknown"
    ELSE IF 5 <= Val(hour) /\ Val(hour) < 12 THEN "Morning"
    ELSE IF 12 <= Val(hour) /\ Val(hour) < 17 THEN "Afternoon"
    ELSE IF 17 <= Val(hour) /\ Val(hour) < 21 THEN "Evening"
    ELSE "Night"

\* the three columns clean_dates derives from one violation_time cell
TimeColumns(violation_time) ==
    LET parsed == parse_time(violation_time)
        hour == violation_hour_of(parsed)
    IN  [violation_time_parsed |-> parsed,
         violation_hour |-> hour,
         time_of_day |-> categorize_time(hour)]

----------------------------------------------------------------------------
(* The time column under test: both encodings of one moment *)

Meridiems == {"A", "P", "a", "p", ""}

MeridiemText(m) == IF m = "" THEN <<>> ELSE <<m>>

\* "HHmmA"
EncodePlain(h, m, mer) == Format02d(h) \o Format02d(m) \o MeridiemText(mer)

\* "HH:mmA"
EncodeColon(h, m, mer) ==
    Format02d(h) \o <<":">> \o Format02d(m) \o MeridiemText(mer)

NoMoment == [hours |-> 0, minutes |-> 0, meridiem |-> ""]

ApplyParseTime ==
    /\ time_col # <<>>
    /\ time_out = <<>>
    /\ time_out' = [i \in 1..Len(time_col) |-> TimeColumns(time_col[i])]
    /\ UNCHANGED <<tm, time_col>>
    /\ UNCHANGED <<pipeVars, stateVars, loaderVars>>

----------------------------------------------------------------------------
(* The state normalizer of the dashboard *)

valid_states ==
    {<<"A", "L">>, <<"A", "K">>, <<"A", "Z">>, <<"A", "R">>, <<"C", "A">>, <<"C", "O">>, <<"C", "T">>, <<"D", "E">>, <<"F", "L">>, <<"G", "A">>,
     <<"H", "I">>, <<"I", "D">>, <<"I", "L">>, <<"I", "N">>, <<"I", "A">>, <<"K", "S">>, <<"K", "Y">>, <<"L", "A">>, <<"M", "E">>, <<"M", "D">>,
     <<"M", "A">>, <<"M", "I">>, <<"M", "N">>, <<"M", "S">>, <<"M", "O">>, <<"M", "T">>, <<"N", "E">>, <<"N", "V">>, <<"N", "H">>, <<"N", "J">>,
     <<"N", "M">>, <<"N", "Y">>, <<"N", "C">>, <<"N", "D">>, <<"O", "H">>, <<"O", "K">>, <<"O", "R">>, <<"P", "A">>, <<"R", "I">>, <<"S", "C">>,
     <<"S", "D">>, <<"T", "N">>, <<"T", "X">>, <<"U", "T">>, <<"V", "T">>, <<"V", "A">>, <<"W", "A">>, <<"W", "V">>, <<"W", "I">>, <<"W", "Y">>,
     <<"D", "C">>, <<"P", "R">>, <<"V", "I">>, <<"G", "U">>, <<"A", "S">>, <<"M", "P">>}

UNKNOWN == <<"U", "N", "K", "N", "O", "W", "N">>

state_map ==
    (<<"N", ".", "Y">> :> <<"N", "Y">>)
    @@ (<<"N", ".", "J">> :> <<"N", "J">>)
    @@ (<<"P", "E", "N", "N">> :> <<"P", "A">>)
    @@ (<<"P", "E", "N", "N", "A">> :> <<"P", "A">>)
    @@ (<<"M", "A", "S", "S">> :> <<"M", "A">>)
    @@ (<<"C", "O", "N", "N">> :> <<"C", "T">>)
    @@ (<<"F", "L", "A">> :> <<"F", "L">>)
    @@ (<<"C", "A", "L", "I", "F">> :> <<"C", "A">>)
    @@ (<<"N", " ", "Y">> :> <<"N", "Y">>)
    @@ (<<"N", " ", "J">> :> <<"N", "J">>)
    @@ (<<"P", " ", "A">> :> <<"P", "A">>)

StartsWith(s, prefix) ==
    Len(s) >= Len(prefix) /\ SubSeq(s, 1, Len(prefix)) = prefix

\* str.replace(old, ''): every occurrence found scanning left to right
RECURSIVE RemoveAll(_, _)
RemoveAll(s, old) ==
    IF s = <<>> THEN <<>>
    ELSE IF StartsWith(s, old)
         THEN RemoveAll(SubSeq(s, Len(old) + 1, Len(s)), old)
         ELSE <<Head(s)>> \o RemoveAll(Tail(s), old)

\* str.isdigit()
isdigit(s) == s # <<>> /\ \A i \in 1..Len(s) : s[i] \in Digits

\* mutant of TruncateOrUnknown: the first two characters are not looked up
TruncateOrUnknown_Unchecked(val) ==
    IF Len(val) = 3 THEN Slice(val, 0, 2) ELSE UNKNOWN

\* lines 238-244: the last resort for a value of three characters
TruncateOrUnknown(val) ==
    IF Len(val) = 3 /\ Slice(val, 0, 2) \in valid_states
    THEN Slice(val, 0, 2)
    ELSE UNKNOWN

clean_state(cell) ==
    IF IsNull(cell) THEN UNKNOWN
    ELSE LET stripped == upper(strip(Val(cell)))
             val == RemoveAll(RemoveAll(stripped, <<"U", "S", "-">>),
                              <<"U", "S", "A", "-">>)
         IN  IF isdigit(val) \/ Len(val) > 3 \/ Len(val) = 0 THEN UNKNOWN
             ELSE IF val \in valid_states THEN val
             ELSE IF val \in DOMAIN state_map THEN state_map[val]
             ELSE TruncateOrUnknown(val)

\* state_series.apply(clean_state)
clean_state_field(state_series) ==
    [i \in 1..Len(state_series) |-> Some(clean_state(state_series[i]))]

----------------------------------------------------------------------------
(* Input tables *)

\* raw cell values the input files are built from
SummonsDomain == {Some(1), Some(2), None}
DateDomain == {Some("2024-01-05"), Some("not-a-date")}
TimeDomain == {Some(<<"0", "2", "3", "0", "P">>), Some(<<"n", "o", "o", "n">>)}
StateDomain == {Some(<<"n", ".", "y">>)}
CountyDomain == {Some(<<"m", "a", "n">>), None}
FineDomain == {Some(<<"7", "5">>)}
PlateDomain == {Some(<<"A", "B", "C", "1", "2", "3", "4">>)}

RawRows ==
    [summons_number : SummonsDomain, issue_date : DateDomain,
     violation_time : TimeDomain, state : StateDomain, county : CountyDomain,
     fine_amount : FineDomain, plate : PlateDomain]

RECURSIVE TablesOfLen(_)
TablesOfLen(n) ==
    IF n = 0 THEN {<<>>}
    ELSE {Append(t, r) : t \in TablesOfLen(n - 1), r \in RawRows}

Tables == UNION {TablesOfLen(n) : n \in 0..MaxRows}

\* a file pd.read_csv cannot read (missing, empty, corrupt)
UnreadableFile == [readable |-> FALSE, rows |-> <<>>]

Files == {UnreadableFile} \cup {[readable |-> TRUE, rows |-> t] : t \in Tables}

\* pd.read_csv gives a column with no text in it the dtype float64 (object
\* when the file has no rows at all); the dtype stays with the column.
CountyColumnIsText ==
    \/ file.rows = <<>>
    \/ \E i \in 1..Len(file.rows) : NotNull(file.rows[i].county)


\* the file has a violation_time column (every row of a table has the same
\* columns)
HasViolationTime ==
    file.rows = <<>> \/ "violation_time" \in DOMAIN file.rows[1]

----------------------------------------------------------------------------
(* Table helpers *)

\* df[mask]: the rows whose mask is TRUE, in order, index labels kept
RECURSIVE SelectRows(_, _)
SelectRows(df, mask) ==
    IF df = <<>> THEN <<>>
    ELSE LET rest == SelectRows(Tail(df), Tail(mask))
         IN  IF Head(mask) THEN <<Head(df)>> \o rest ELSE rest

CountTrue(mask) == Cardinality({i \in 1..Len(mask) : mask[i]})

\* pd.to_datetime(cell, errors='coerce'), on the date texts of the inputs
ParseableDates == {"2024-01-05"}

to_datetime(cell) ==
    IF IsNull(cell) \/ Val(cell) \notin ParseableDates THEN None
    ELSE Some([year |-> 2024, month |-> 1, day |-> 5])

----------------------------------------------------------------------------
(* ParkingDataCleaner *)

InitialReport ==
    [initial_records |-> 0, final_records |-> 0, duplicates_removed |-> 0,
     invalid_dates_removed |-> 0]

\* __init__
Constructed ==
    /\ raw_df = None
    /\ clean_df = None
    /\ removed_rows = <<>>
    /\ cleaning_report = InitialReport

\* mutant of LoadData: a failed read leaves an empty table and reports success
LoadData_SwallowsFailure ==
    /\ pc = "start"
    /\ stages' = Append(stages, "load_data")
    /\ raw_df' = Some([i \in 1..Len(file.rows) |->
                         file.rows[i] @@ [index |-> i - 1]])
    /\ cleaning_report' =
         [cleaning_report EXCEPT !.initial_records = Len(file.rows)]
    /\ pc' = "loaded"
    /\ UNCHANGED <<file, clean_df, removed_rows, ret, cdp_ret>>
    /\ UNCHANGED <<saved_csv, run, report_html, otherVars>>

\* load_data, and run_full_pipeline's "return None" when it fails
LoadData ==
    /\ pc = "start"
    /\ stages' = Append(stages, "load_data")
    /\ IF file.readable
       THEN /\ raw_df' = Some([i \in 1..Len(file.rows) |->
                                 file.rows[i] @@ [index |-> i - 1]])
            /\ cleaning_report' =
                 [cleaning_report EXCEPT !.initial_records = Len(file.rows)]
            /\ pc' = "loaded"
            /\ ret' = ret
       ELSE /\ pc' = "done"
            /\ ret' = "None"
            /\ UNCHANGED <<raw_df, cleaning_report>>
    /\ UNCHANGED <<file, clean_df, removed_rows, cdp_ret>>
    /\ UNCHANGED <<saved_csv, run, report_html, otherVars>>

\* check_data_quality works on a copy and only prints
CheckDataQuality ==
    /\ pc = "loaded"
    /\ stages' = Append(stages, "check_data_quality")
    /\ pc' = "assessed"
    /\ UNCHANGED <<file, raw_df, clean_df, removed_rows, cleaning_report, ret,
                   cdp_ret>>
    /\ UNCHANGED <<saved_csv, run, report_html, otherVars>>

\* mutant of DropInvalidDates: a row with an unparseable violation_time is
\* dropped as well
DropInvalidDates_OrTimes(df) ==
    LET converted == [i \in 1..Len(df) |->
                        [df[i] EXCEPT !.issue_date = to_datetime(@)]]
    IN  SelectRows(converted,
                   [i \in 1..Len(df) |->
                      /\ NotNull(converted[i].issue_date)
                      /\ NotNull(parse_time(converted[i].violation_time))])

\* the issue_date part of clean_dates: the rows that stay
DropInvalidDates(df) ==
    LET converted == [i \in 1..Len(df) |->
                        [df[i] EXCEPT !.issue_date = to_datetime(@)]]
        invalid_mask == [i \in 1..Len(df) |-> IsNull(converted[i].issue_date)]
    IN  IF CountTrue(invalid_mask) > 0
        THEN SelectRows(converted, [i \in 1..Len(df) |-> ~invalid_mask[i]])
        ELSE converted

\* the issue_date part of clean_dates: what it writes to the report
InvalidDatesReport(df, report) ==
    LET invalid_count == Cardinality({i \in 1..Len(df) :
                                        IsNull(to_datetime(df[i].issue_date))})
    IN  IF invalid_count > 0
        THEN [report EXCEPT !.invalid_dates_removed = invalid_count]
        ELSE report

\* line 128 on the table self.raw_df refers to: issue_date is assigned in place
ConvertIssueDates(df) ==
    [i \in 1..Len(df) |-> [df[i] EXCEPT !.issue_date = to_datetime(@)]]

\* clean_dates; df['violation_time'] at line 203 is a KeyError when the table
\* has no such column, after line 128 has written issue_date into self.raw_df
\* and line 140 the count into the report
CleanDates ==
    /\ pc = "assessed"
    /\ stages' = Append(stages, "clean_dates")
    /\ cleaning_report' = InvalidDatesReport(Val(raw_df), cleaning_report)
    /\ IF HasViolationTime
       THEN /\ LET df == DropInvalidDates(Val(raw_df))
               IN  raw_df' = Some([i \in 1..Len(df) |->
                                     df[i] @@ TimeColumns(df[i].violation_time)])
            /\ pc' = "dates"
            /\ ret' = ret
       ELSE /\ raw_df' = Some(ConvertIssueDates(Val(raw_df)))
            /\ pc' = "raised"
            /\ ret' = "exception"
    /\ UNCHANGED <<file, clean_df, removed_rows, cdp_ret>>
    /\ UNCHANGED <<saved_csv, run, report_html, otherVars>>

\* mutant of UpperStrip: .str.upper() without .str.strip()
UpperStrip_UpperOnly(cell) == IF IsNull(cell) THEN None ELSE Some(upper(Val(cell)))

\* .str.upper().str.strip() on one cell; a missing cell stays missing
UpperStrip(cell) == IF IsNull(cell) THEN None ELSE Some(strip(upper(Val(cell))))

\* Series.replace(borough_mapping) on one cell: whole-value matches only
borough_mapping(cell) ==
    IF IsNull(cell) THEN None
    ELSE LET c == Val(cell)
         IN  IF c \in {<<"M", "A", "N">>, <<"M", "H">>, <<"N", "Y">>}
             THEN Some(<<"M", "A", "N", "H", "A", "T", "T", "A", "N">>)
             ELSE IF c = <<"B", "X">>
             THEN Some(<<"B", "R", "O", "N", "X">>)
             ELSE IF c \in {<<"B", "K">>, <<"K">>}
             THEN Some(<<"B", "R", "O", "O", "K", "L", "Y", "N">>)
             ELSE IF c \in {<<"Q">>, <<"Q", "N">>}
             THEN Some(<<"Q", "U", "E", "E", "N", "S">>)
             ELSE IF c \in {<<"R">>, <<"S", "T">>}
             THEN Some(<<"S", "T", "A", "T", "E", "N", " ",
                         "I", "S", "L", "A", "N", "D">>)
             ELSE cell

\* lines 246-258: state codes and the NY flag
CleanState(row) ==
    LET st == UpperStrip(row.state)
    IN  [row EXCEPT !.state = st] @@ [is_ny_plate |-> (st = Some(<<"N", "Y">>))]

\* lines 277-278: county
CleanCounty(row) ==
    [row EXCEPT !.county = borough_mapping(UpperStrip(row.county))]

\* clean_categorical_fields works on raw_df in place; .str on a column that
\* is not text raises AttributeError after the state columns were written
CleanCategoricalFields ==
    /\ pc = "dates"
    /\ stages' = Append(stages, "clean_categorical_fields")
    /\ LET df == Val(raw_df)
           withState == [i \in 1..Len(df) |-> CleanState(df[i])]
       IN  IF CountyColumnIsText
           THEN /\ raw_df' = Some([i \in 1..Len(df) |-> CleanCounty(withState[i])])
                /\ pc' = "categorical"
                /\ ret' = ret
           ELSE /\ raw_df' = Some(withState)
                /\ pc' = "raised"
                /\ ret' = "exception"
    /\ UNCHANGED <<file, clean_df, removed_rows, cleaning_report, cdp_ret>>
    /\ UNCHANGED <<saved_csv, run, report_html, otherVars>>

\* pd.to_numeric(errors='coerce') on one cell: the number a whole-number text
\* spells, NaN for a missing cell and for any other text
to_numeric(cell) == IF IsNull(cell) THEN None ELSE py_int(Val(cell))

\* mutant of fine_amount_flag_of: the boundary of high moved onto 500
fine_amount_flag_of_HighFrom500(fine_amount) ==
    IF NotNull(fine_amount) /\ Val(fine_amount) >= 500 THEN "high"
    ELSE IF NotNull(fine_amount) /\ Val(fine_amount) < 0 THEN "negative"
    ELSE IF NotNull(fine_amount) /\ Val(fine_amount) = 0 THEN "zero"
    ELSE "normal"

\* lines 345-348: later assignments overwrite earlier ones
fine_amount_flag_of(fine_amount) ==
    IF NotNull(fine_amount) /\ Val(fine_amount) > 500 THEN "high"
    ELSE IF NotNull(fine_amount) /\ Val(fine_amount) < 0 THEN "negative"
    ELSE IF NotNull(fine_amount) /\ Val(fine_amount) = 0 THEN "zero"
    ELSE "normal"

CleanNumericFields ==
    /\ pc = "categorical"
    /\ stages' = Append(stages, "clean_numeric_fields")
    /\ LET df == Val(raw_df)
           numeric == [i \in 1..Len(df) |->
                          [df[i] EXCEPT !.fine_amount = to_numeric(@)]]
       IN  raw_df' = Some([i \in 1..Len(df) |->
             numeric[i] @@ [fine_amount_flag |->
                               fine_amount_flag_of(numeric[i].fine_amount)]])
    /\ pc' = "numeric"
    /\ UNCHANGED <<file, clean_df, removed_rows, cleaning_report, ret, cdp_ret>>
    /\ UNCHANGED <<saved_csv, run, report_html, otherVars>>

\* mutant of duplicate_mask: only an earlier row that has its county marks a
\* later one, so that a complete duplicate outlives an incomplete first row
duplicate_mask_AmongComplete(df) ==
    [i \in 1..Len(df) |->
       \E j \in 1..(i - 1) : /\ df[j].summons_number = df[i].summons_number
                             /\ NotNull(df[j].county)]

\* mutant of duplicate_mask: a missing key equals no other key
duplicate_mask_NullsDistinct(df) ==
    [i \in 1..Len(df) |->
       \E j \in 1..(i - 1) : /\ NotNull(df[i].summons_number)
                             /\ df[j].summons_number = df[i].summons_number]

\* mutant of duplicate_mask: keep='last'
duplicate_mask_KeepLast(df) ==
    [i \in 1..Len(df) |->
       \E j \in (i + 1)..Len(df) : df[j].summons_number = df[i].summons_number]

\* df.duplicated(subset=['summons_number'], keep='first'): a row is marked
\* when an earlier row has the same key; missing keys count as equal
duplicate_mask(df) ==
    [i \in 1..Len(df) |->
       \E j \in 1..(i - 1) : df[j].summons_number = df[i].summons_number]

\* mutant of DropDuplicates: the duplicates are counted but not filtered out
DropDuplicates_CountOnly(df) == df

\* lines 382-389: the rows remove_duplicates keeps
DropDuplicates(df) ==
    IF CountTrue(duplicate_mask(df)) > 0
    THEN SelectRows(df, [i \in 1..Len(df) |-> ~duplicate_mask(df)[i]])
    ELSE df

\* mutant of DuplicatesReport: counts every row whose key occurs twice
\* (keep=False)
DuplicatesReport_KeepFalse(df, report) ==
    LET n == Cardinality({i \in 1..Len(df) : \E j \in 1..Len(df) :
                            j # i /\ df[j].summons_number = df[i].summons_number})
    IN  IF n > 0 THEN [report EXCEPT !.duplicates_removed = n] ELSE report

\* line 387: what remove_duplicates writes to the report
DuplicatesReport(df, report) ==
    IF CountTrue(duplicate_mask(df)) > 0
    THEN [report EXCEPT !.duplicates_removed = CountTrue(duplicate_mask(df))]
    ELSE report

RemoveDuplicates ==
    /\ pc = "numeric"
    /\ stages' = Append(stages, "remove_duplicates")
    /\ raw_df' = Some(DropDuplicates(Val(raw_df)))
    /\ cleaning_report' = DuplicatesReport(Val(raw_df), cleaning_report)
    /\ pc' = "dedup"
    /\ UNCHANGED <<file, clean_df, removed_rows, ret, cdp_ret>>
    /\ UNCHANGED <<saved_csv, run, report_html, otherVars>>

\* lines 411-420
DerivedFeatures(row) ==
    [is_business_hours |->
        IF NotNull(row.violation_hour)
        THEN 9 <= Val(row.violation_hour) /\ Val(row.violation_hour) <= 17
        ELSE FALSE,
     plate_masked |->
        IF NotNull(row.plate)
        THEN Some(<<"*", "*", "*">> \o LastChars(Val(row.plate), 3))
        ELSE None]

CreateDerivedFeatures ==
    /\ pc = "dedup"
    /\ stages' = Append(stages, "create_derived_features")
    /\ LET df == Val(raw_df)
       IN  raw_df' = Some([i \in 1..Len(df) |-> df[i] @@ DerivedFeatures(df[i])])
    /\ pc' = "derived"
    /\ UNCHANGED <<file, clean_df, removed_rows, cleaning_report, ret, cdp_ret>>
    /\ UNCHANGED <<saved_csv, run, report_html, otherVars>>

critical_columns == <<"summons_number", "issue_date", "county">>

\* mutant of missing_fields: only the first missing column is named
missing_fields_FirstOnly(row) ==
    SubSeq(SelectSeq(critical_columns, LAMBDA col : IsNull(row[col])), 1, 1)

\* [col for col in critical_columns if pd.isnull(row[col])]
missing_fields(row) == SelectSeq(critical_columns, LAMBDA col : IsNull(row[col]))

\* df[critical_columns].isnull().any(axis=1)
missing_critical_mask(df) ==
    [i \in 1..Len(df) |-> \E k \in 1..Len(critical_columns) :
                             IsNull(df[i][critical_columns[k]])]

\* lines 451-457: the record appended for one dropped row
FinalizeRemovalRecord(row) ==
    [index |-> row.index,
     summons_number |-> row.summons_number,
     issue_date_original |-> row.issue_date,
     reason |-> [text |-> "Missing critical field(s)",
                 fields |-> missing_fields(row)],
     step |-> "finalize_cleaning"]

\* lines 447-457: one record per row of df[missing_critical_mask], in order
FinalizeRemovalLog(df) ==
    LET dropped == SelectRows(df, missing_critical_mask(df))
    IN  [i \in 1..Len(dropped) |-> FinalizeRemovalRecord(dropped[i])]

\* mutant of DropMissingCritical: dropna(how='all')
DropMissingCritical_HowAll(df) ==
    SelectRows(df, [i \in 1..Len(df) |->
                      \E k \in 1..Len(critical_columns) :
                         NotNull(df[i][critical_columns[k]])])

\* df.dropna(subset=critical_columns)
DropMissingCritical(df) ==
    SelectRows(df, [i \in 1..Len(df) |-> ~missing_critical_mask(df)[i]])

\* mutant of AppendRemovals: the list is started over
AppendRemovals_StartOver(log, records) == records

\* self.removed_rows.append(...) for each record, in order
AppendRemovals(log, records) == log \o records

\* mutant of FinalizeCleaning: called right after remove_duplicates
FinalizeCleaning_BeforeFeatures ==
    /\ pc = "dedup"
    /\ stages' = Append(stages, "finalize_cleaning")
    /\ LET df == Val(raw_df)
           kept == DropMissingCritical(df)
       IN  /\ removed_rows' = AppendRemovals(removed_rows, FinalizeRemovalLog(df))
           /\ clean_df' = Some(kept)
           /\ cleaning_report' = [cleaning_report EXCEPT !.final_records = Len(kept)]
    /\ IF cleaning_report.initial_records = 0
       THEN pc' = "raised" /\ ret' = "exception"
       ELSE pc' = "finalized" /\ ret' = ret
    /\ UNCHANGED <<file, raw_df, cdp_ret>>
    /\ UNCHANGED <<saved_csv, run, report_html, otherVars>>

\* finalize_cleaning; the retention rate of line 471 divides by
\* initial_records after clean_df and final_records were set
FinalizeCleaning ==
    /\ pc = "derived"
    /\ stages' = Append(stages, "finalize_cleaning")
    /\ LET df == Val(raw_df)
           kept == DropMissingCritical(df)
       IN  /\ removed_rows' = AppendRemovals(removed_rows, FinalizeRemovalLog(df))
           /\ clean_df' = Some(kept)
           /\ cleaning_report' = [cleaning_report EXCEPT !.final_records = Len(kept)]
    /\ IF cleaning_report.initial_records = 0
       THEN pc' = "raised" /\ ret' = "exception"       \* ZeroDivisionError
       ELSE pc' = "finalized" /\ ret' = ret
    /\ UNCHANGED <<file, raw_df, cdp_ret>>
    /\ UNCHANGED <<saved_csv, run, report_html, otherVars>>

\* generate_cleaning_report prints the counters and the retention (line 519)
GenerateCleaningReport ==
    /\ pc = "finalized"
    /\ stages' = Append(stages, "generate_cleaning_report")
    /\ IF cleaning_report.initial_records = 0
       THEN pc' = "raised" /\ ret' = "exception"       \* ZeroDivisionError
       ELSE pc' = "reported" /\ ret' = ret
    /\ UNCHANGED <<file, raw_df, clean_df, removed_rows, cleaning_report, cdp_ret>>
    /\ UNCHANGED <<saved_csv, run, report_html, otherVars>>

\* f"{pct:.1f}" of count / total * 100, in tenths of a percent
PercentTenths(count, total) == (count * 2000 + total) \div (2 * total)

\* lines 713 and 738: the guarded percentage of one table row
GuardedPercent(count, log) ==
    IF log # <<>> THEN PercentTenths(count, Len(log)) ELSE 0

CountWhere(log, Test(_)) == Cardinality({i \in 1..Len(log) : Test(log[i])})

NotRendered ==
    [status |-> "none", retention |-> 0, by_step |-> <<>>, by_reason |-> <<>>]

\* _generate_html_removal_report: the numbers of the page. The retention rate
\* of line 696 divides by initial_records before any table row is written;
\* the rows of the two tables are kept by their key, without their order.
GenerateHtmlRemovalReport(log, report) ==
    LET step_stats == {log[i].step : i \in 1..Len(log)}
        reason_stats == {log[i].reason : i \in 1..Len(log)}
    IN  IF report.initial_records = 0
        THEN [NotRendered EXCEPT !.status = "ZeroDivisionError"]
        ELSE [status |-> "rendered",
              retention |->
                 (report.final_records * 20000 + report.initial_records)
                    \div (2 * report.initial_records),
              by_step |->
                 [st \in step_stats |->
                    LET count == CountWhere(log, LAMBDA r : r.step = st)
                    IN  [count |-> count, pct |-> GuardedPercent(count, log)]],
              by_reason |->
                 [rs \in reason_stats |->
                    LET count == CountWhere(log, LAMBDA r : r.reason = rs)
                    IN  [count |-> count, pct |-> GuardedPercent(count, log)]]]

\* save_removal_report renders the log and writes it inside try/except;
\* run_full_pipeline then returns clean_df
SaveRemovalReport ==
    /\ pc = "reported"
    /\ stages' = Append(stages, "save_removal_report")
    /\ report_html' = GenerateHtmlRemovalReport(removed_rows, cleaning_report)
    /\ IF report_html'.status = "ZeroDivisionError"
       THEN pc' = "raised" /\ ret' = "exception"
       ELSE pc' = "done" /\ ret' = "clean_df"
    /\ UNCHANGED <<file, raw_df, clean_df, removed_rows, cleaning_report, cdp_ret>>
    /\ UNCHANGED <<saved_csv, run, otherVars>>

\* DataFrame.to_csv(filepath, index=False): every column, without the index
to_csv(df) ==
    [i \in 1..Len(df) |->
        [c \in (DOMAIN df[i]) \ {"index"} |-> df[i][c]]]

\* clean_data_pipeline after run_full_pipeline: None when the run returned
\* None, else it saves the table (save_cleaned_data returns None when the
\* write fails) and the report and returns the pair; an exception of the run
\* passes through
CleanDataPipelineReturn ==
    /\ pc \in {"done", "raised"}
    /\ cdp_ret = "pending"
    /\ cdp_ret' = IF ret = "None" THEN "None"
                  ELSE IF ret = "exception" THEN "exception"
                  ELSE "pair"
    /\ IF ret = "clean_df"
       THEN \E written \in BOOLEAN :
               saved_csv' = IF written THEN Some(to_csv(Val(clean_df))) ELSE None
       ELSE UNCHANGED saved_csv
    /\ report_html' = IF ret = "clean_df"
                      THEN GenerateHtmlRemovalReport(removed_rows, cleaning_report)
                      ELSE report_html
    /\ UNCHANGED <<file, raw_df, clean_df, removed_rows, cleaning_report, pc,
                   stages, ret, run>>
    /\ UNCHANGED otherVars

----------------------------------------------------------------------------
(* NYCParkingDataLoader._make_request, data_loader.py lines 42-90 *)

\* A call that has not been made.
NoRequest ==
    [pc |-> "idle", max_retries |-> 0, attempt |-> 0, outcomes |-> <<>>,
     result |-> None]

\* Bodies a 200 response can carry once decoded: a JSON list of rows.
JsonBodies == {<<>>, <<1>>, <<1, 2>>}

\* Status codes other than 200 and 429 (the else branch, lines 77-79).
OtherStatuses == {404, 500}

\* session.get returned a response; json is None when the body does not
\* decode, so that response.json() raises inside the try block.
Response(code, body) ==
    [kind |-> "response", status_code |-> code, json |-> body]

\* session.get raised.
Raised(exception) == [kind |-> exception, status_code |-> 0, json |-> None]

\* What one pass through the try block can meet.
Outcomes ==
    {Response(200, Some(body)) : body \in JsonBodies}
        \cup {Response(200, None)}
        \cup {Response(code, None) : code \in {429} \cup OtherStatuses}
        \cup {Raised("Timeout"), Raised("ConnectionError")}

\* mutant of Retryable: every response other than 200 is retried.
Retryable_AnyStatus(outcome) ==
    \/ outcome.kind = "response" /\ outcome.status_code # 200
    \/ outcome.kind = "Timeout"

\* The branches that fall through to the next iteration: status 429 (lines
\* 71-75) and requests.exceptions.Timeout (lines 81-83).
Retryable(outcome) ==
    \/ outcome.kind = "response" /\ outcome.status_code = 429
    \/ outcome.kind = "Timeout"

\* The value of the return statement a non-retried outcome reaches: the
\* decoded body of a 200 (line 69), None otherwise (lines 79 and 87; a body
\* that does not decode raises into the handler of line 85).
ReturnedBy(outcome) ==
    IF outcome.kind = "response" /\ outcome.status_code = 200
    THEN outcome.json
    ELSE None

\* One iteration of the for loop of line 60.
Attempt ==
    /\ mr.pc = "loop"
    /\ mr.attempt < mr.max_retries
    /\ \E outcome \in Outcomes :
          mr' = IF Retryable(outcome)
                THEN [mr EXCEPT !.attempt = @ + 1,
                                !.outcomes = Append(@, outcome)]
                ELSE [mr EXCEPT !.attempt = @ + 1,
                                !.outcomes = Append(@, outcome),
                                !.pc = "returned",
                                !.result = ReturnedBy(outcome)]
    /\ UNCHANGED <<pipeVars, timeVars, stateVars, lp>>

\* The range is exhausted: lines 89-90.
FailedAfterRetries ==
    /\ mr.pc = "loop"
    /\ mr.attempt >= mr.max_retries
    /\ mr' = [mr EXCEPT !.pc = "returned", !.result = None]
    /\ UNCHANGED <<pipeVars, timeVars, stateVars, lp>>

----------------------------------------------------------------------------
(* NYCParkingDataLoader.load_paginated, data_loader.py lines 272-354 *)

\* A call that has not been made.  requests is the history of the calls of
\* _make_request: what each asked for and what it returned.
NoPagination ==
    [pc |-> "idle", total_records |-> 0, records_per_page |-> 0,
     all_data |-> <<>>, offset |-> 0, page |-> 1, requests |-> <<>>,
     result |-> None]

\* mutant of PageLimit: every page asks for a full page.
PageLimit_FullPage(remaining, records_per_page) == records_per_page

\* limit = min(remaining, records_per_page), line 319.
PageLimit(remaining, records_per_page) == Min(remaining, records_per_page)

\* The rows the endpoint serves from an offset: the dataset is ordered
\* (line 302), so a row is identified by its position in it.
PageRows(offset, count) == [i \in 1..count |-> offset + i]

\* What _make_request can hand back for a page: None when it failed, or a
\* list of rows, which the endpoint may fill short of, up to, or past $limit.
PageData(offset, limit) ==
    {None} \cup {Some(PageRows(offset, count)) : count \in 0..(limit + 1)}

\* "if not data", line 329: None and the empty list are both falsy.
NoData(data) == IsNull(data) \/ Val(data) = <<>>

\* One iteration of the while loop of line 316.
RequestPage ==
    /\ lp.pc = "loop"
    /\ Len(lp.all_data) < lp.total_records
    /\ LET remaining == lp.total_records - Len(lp.all_data)
           limit == PageLimit(remaining, lp.records_per_page)
       IN \E data \in PageData(lp.offset, limit) :
             LET request == [limit |-> limit, offset |-> lp.offset,
                             before |-> Len(lp.all_data), data |-> data]
             IN lp' = IF NoData(data)
                      THEN [lp EXCEPT !.requests = Append(@, request),
                                      !.pc = "after_loop"]
                      ELSE [lp EXCEPT
                              !.requests = Append(@, request),
                              !.all_data = @ \o Val(data),
                              !.offset = @ + Len(Val(data)),
                              !.page = @ + 1,
                              !.pc = IF Len(Val(data)) < limit
                                     THEN "after_loop"
                                     ELSE "loop"]
    /\ UNCHANGED <<pipeVars, timeVars, stateVars, mr>>

\* mutant of PaginatedResult: a load that fell short of total_records is
\* reported as a failure.
PaginatedResult_CompleteOnly(frame) ==
    IF Len(frame.all_data) >= frame.total_records /\ frame.all_data # <<>>
    THEN Some(frame.all_data)
    ELSE None

\* Lines 348-354: a DataFrame of whatever was accumulated, None if nothing.
PaginatedResult(frame) ==
    IF frame.all_data # <<>> THEN Some(frame.all_data) ELSE None

\* The loop is left, by its condition or by a break, and the call returns.
ReturnPaginated ==
    /\ \/ lp.pc = "after_loop"
       \/ lp.pc = "loop" /\ Len(lp.all_data) >= lp.total_records
    /\ lp' = [lp EXCEPT !.pc = "returned", !.result = PaginatedResult(lp)]
    /\ UNCHANGED <<pipeVars, timeVars, stateVars, mr>>

----------------------------------------------------------------------------
(* Specifications *)

\* one call of clean_data_pipeline on a freshly constructed cleaner
Init ==
    /\ file \in Files
    /\ Constructed
    /\ pc = "start"
    /\ stages = <<>>
    /\ ret = "pending"
    /\ cdp_ret = "pending"
    /\ saved_csv = None
    /\ run = 1
    /\ report_html = NotRendered
    /\ tm = NoMoment
    /\ time_col = <<>>
    /\ time_out = <<>>
    /\ state_hist = <<>>
    /\ mr = NoRequest
    /\ lp = NoPagination

Next ==
    \/ LoadData
    \/ CheckDataQuality
    \/ CleanDates
    \/ CleanCategoricalFields
    \/ CleanNumericFields
    \/ RemoveDuplicates
    \/ CreateDerivedFeatures
    \/ FinalizeCleaning
    \/ GenerateCleaningReport
    \/ SaveRemovalReport
    \/ CleanDataPipelineReturn

Spec == Init /\ [][Next]_vars

\* the time parsing of clean_dates applied to a column that holds the
\* separator-less and the colon encoding of one moment
InitTime ==
    /\ file = UnreadableFile
    /\ Constructed
    /\ pc = "start"
    /\ stages = <<>>
    /\ ret = "pending"
    /\ cdp_ret = "pending"
    /\ saved_csv = None
    /\ run = 1
    /\ report_html = NotRendered
    /\ tm \in [hours : 0..MaxHour, minutes : 0..MaxMinute, meridiem : Meridiems]
    /\ time_col = <<Some(EncodePlain(tm.hours, tm.minutes, tm.meridiem)),
                    Some(EncodeColon(tm.hours, tm.minutes, tm.meridiem))>>
    /\ time_out = <<>>
    /\ state_hist = <<>>
    /\ mr = NoRequest
    /\ lp = NoPagination

NextTime == ApplyParseTime

SpecTime == InitTime /\ [][NextTime]_vars

\* df['violation_time'].apply(parse_time) and the two derived columns, on a
\* column of one arbitrary cell
TimeAlphabet == {"0", "1", "2", "9", ":", "P", "a"}

MaxTimeLen == 4

RECURSIVE TextsOfLen(_, _)
TextsOfLen(alphabet, n) ==
    IF n = 0 THEN {<<>>}
    ELSE {<<c>> \o t : c \in alphabet, t \in TextsOfLen(alphabet, n - 1)}

ShortTimes == UNION {TextsOfLen(TimeAlphabet, n) : n \in 0..MaxTimeLen}

\* the cells a violation_time column can hold: a missing value, every short
\* text, and both encodings of the first and the last minute of every hour
TimeCells ==
    {None}
    \cup {Some(t) : t \in ShortTimes}
    \cup {Some(EncodePlain(h, m, mer)) :
              h \in 0..MaxHour, m \in {0, MaxMinute}, mer \in Meridiems}
    \cup {Some(EncodeColon(h, m, mer)) :
              h \in 0..MaxHour, m \in {0, MaxMinute}, mer \in Meridiems}

InitTimeCells ==
    /\ file = UnreadableFile
    /\ Constructed
    /\ pc = "start"
    /\ stages = <<>>
    /\ ret = "pending"
    /\ cdp_ret = "pending"
    /\ saved_csv = None
    /\ run = 1
    /\ report_html = NotRendered
    /\ tm = NoMoment
    /\ time_col \in {<<cell>> : cell \in TimeCells}
    /\ time_out = <<>>
    /\ state_hist = <<>>
    /\ mr = NoRequest
    /\ lp = NoPagination

SpecTimeCells == InitTimeCells /\ [][NextTime]_vars

\* filtered_df['state'] = clean_state_field(filtered_df['state']), run again
\* on the column it produced, on a column of one arbitrary cell
StateAlphabet == {"N", "y", "J", "A", ".", " ", "9"}

MaxStateLen == 3

MaxApplications == 2

ShortStates == UNION {TextsOfLen(StateAlphabet, n) : n \in 0..MaxStateLen}

\* longer and mixed-case spellings met in the registration-state field
SpelledStates ==
    {<<"n", ".", "y">>, <<"p", "e", "n", "n">>, <<"C", "a", "l", "i", "f">>,
     <<"U", "S", "-", "N", "Y">>, <<"u", "s", "a", "-", "n", "j">>,
     <<"N", "Y", "C">>, <<" ", "n", "y", " ">>, <<"9", "9", "9", "9">>,
     <<"u", "n", "k", "n", "o", "w", "n">>}

StateCells ==
    {None}
    \cup {Some(t) : t \in ShortStates}
    \cup {Some(t) : t \in SpelledStates}
    \cup {Some(t) : t \in valid_states}
    \cup {Some(t) : t \in DOMAIN state_map}
    \cup {Some(UNKNOWN)}

ApplyCleanStateField ==
    /\ state_hist # <<>>
    /\ Len(state_hist) <= MaxApplications
    /\ state_hist' =
          Append(state_hist, clean_state_field(state_hist[Len(state_hist)]))
    /\ UNCHANGED <<pipeVars, timeVars, loaderVars>>

InitState ==
    /\ file = UnreadableFile
    /\ Constructed
    /\ pc = "start"
    /\ stages = <<>>
    /\ ret = "pending"
    /\ cdp_ret = "pending"
    /\ saved_csv = None
    /\ run = 1
    /\ report_html = NotRendered
    /\ tm = NoMoment
    /\ time_col = <<>>
    /\ time_out = <<>>
    /\ state_hist \in {<< <<cell>> >> : cell \in StateCells}
    /\ mr = NoRequest
    /\ lp = NoPagination

NextState == ApplyCleanStateField

SpecState == InitState /\ [][NextState]_vars

\* one run of clean_data_pipeline on a file of two rows: a complete row and a
\* row whose county, fine_amount and plate cells vary
CountyCells ==
    {Some(<<"M", "A", "N">>), Some(<<"M", "H">>), Some(<<"N", "Y">>),
     Some(<<"B", "X">>), Some(<<"B", "K">>), Some(<<"K">>), Some(<<"Q">>),
     Some(<<"Q", "N">>), Some(<<"R">>), Some(<<"S", "T">>),
     Some(<<"m", "a", "n">>), Some(<<" ", "m", "h", " ">>),
     Some(<<"b", "k", " ">>), Some(<<"q">>), Some(<<" ", "s", "t">>),
     Some(<<"K", "i", "n", "g", "s">>), Some(<<"B", "R", "O", "N", "X">>),
     Some(<<"Q", "U", "E", "E", "N", "S">>),
     Some(<<"S", "t", "a", "t", "e", "n", " ", "I", "s", "l", "a", "n", "d">>),
     Some(<<"X", "X">>), Some(<<"N", " ", "Y">>),
     Some(<<"u", "n", "k", "n", "o", "w", "n">>), None}

FineCells ==
    {Some(<<"7", "5">>), Some(<<"0">>), Some(<<"-", "2", "0">>),
     Some(<<"5", "0", "0">>), Some(<<"5", "0", "1">>),
     Some(<<"a", "b", "c">>), None}

PlateCells ==
    {Some(<<"A", "B", "C", "1", "2", "3", "4">>), Some(<<"A", "B">>), None}

CompleteRow ==
    [summons_number |-> Some(1), issue_date |-> Some("2024-01-05"),
     violation_time |-> Some(<<"0", "2", "3", "0", "P">>),
     state |-> Some(<<"n", ".", "y">>), county |-> Some(<<"m", "a", "n">>),
     fine_amount |-> Some(<<"7", "5">>),
     plate |-> Some(<<"A", "B", "C", "1", "2", "3", "4">>)]

FieldRows ==
    {[CompleteRow EXCEPT !.summons_number = Some(2), !.county = c,
                         !.fine_amount = f, !.plate = p] :
        c \in CountyCells, f \in FineCells, p \in PlateCells}

InitFields ==
    /\ file \in {[readable |-> TRUE, rows |-> <<CompleteRow, r>>] :
                    r \in FieldRows}
    /\ Constructed
    /\ pc = "start"
    /\ stages = <<>>
    /\ ret = "pending"
    /\ cdp_ret = "pending"
    /\ saved_csv = None
    /\ run = 1
    /\ report_html = NotRendered
    /\ tm = NoMoment
    /\ time_col = <<>>
    /\ time_out = <<>>
    /\ state_hist = <<>>
    /\ mr = NoRequest
    /\ lp = NoPagination

SpecFields == InitFields /\ [][Next]_vars

\* one run of clean_data_pipeline on a file that may lack the optional
\* violation_time column
ColumnRows ==
    {[CompleteRow EXCEPT !.summons_number = s, !.issue_date = d, !.county = c] :
        s \in {Some(1), None}, d \in DateDomain, c \in CountyDomain}

RECURSIVE ColumnTablesOfLen(_)
ColumnTablesOfLen(n) ==
    IF n = 0 THEN {<<>>}
    ELSE {Append(t, r) : t \in ColumnTablesOfLen(n - 1), r \in ColumnRows}

\* the row as read from a file without the column
WithoutColumn(row, col) == [c \in (DOMAIN row) \ {col} |-> row[c]]

ColumnFiles ==
    LET tables == UNION {ColumnTablesOfLen(n) : n \in 1..MaxRows}
    IN  {[readable |-> TRUE, rows |-> t] : t \in tables}
        \cup {[readable |-> TRUE,
               rows |-> [i \in 1..Len(t) |-> WithoutColumn(t[i], "violation_time")]] :
                 t \in tables}

InitColumns ==
    /\ file \in ColumnFiles
    /\ Constructed
    /\ pc = "start"
    /\ stages = <<>>
    /\ ret = "pending"
    /\ cdp_ret = "pending"
    /\ saved_csv = None
    /\ run = 1
    /\ report_html = NotRendered
    /\ tm = NoMoment
    /\ time_col = <<>>
    /\ time_out = <<>>
    /\ state_hist = <<>>
    /\ mr = NoRequest
    /\ lp = NoPagination

SpecColumns == InitColumns /\ [][Next]_vars

\* several runs of run_full_pipeline on one cleaner, with save_removal_report
\* also called on the cleaner before and between the runs
MaxRuns == 2

BadDateRow ==
    [CompleteRow EXCEPT !.summons_number = Some(2),
                        !.issue_date = Some("not-a-date")]

NoCountyRow == [CompleteRow EXCEPT !.summons_number = Some(2), !.county = None]

SessionFiles ==
    {UnreadableFile,
     [readable |-> TRUE, rows |-> <<>>],
     [readable |-> TRUE, rows |-> <<CompleteRow>>],
     [readable |-> TRUE, rows |-> <<CompleteRow, CompleteRow>>],
     [readable |-> TRUE, rows |-> <<CompleteRow, BadDateRow>>],
     [readable |-> TRUE, rows |-> <<CompleteRow, NoCountyRow>>]}

\* run_full_pipeline called again on the cleaner: nothing of the cleaner is
\* reset (lines 762-769)
RunAgain ==
    /\ pc \in {"done", "raised"}
    /\ run < MaxRuns
    /\ run' = run + 1
    /\ file' \in SessionFiles
    /\ pc' = "start"
    /\ stages' = <<>>
    /\ ret' = "pending"
    /\ UNCHANGED <<raw_df, clean_df, removed_rows, cleaning_report, cdp_ret,
                   saved_csv, report_html>>
    /\ UNCHANGED otherVars

\* save_removal_report called on the cleaner while no run is in progress
CallSaveRemovalReport ==
    /\ pc \in {"start", "done", "raised"}
    /\ report_html' = GenerateHtmlRemovalReport(removed_rows, cleaning_report)
    /\ UNCHANGED <<file, raw_df, clean_df, removed_rows, cleaning_report, pc,
                   stages, ret, cdp_ret, saved_csv, run>>
    /\ UNCHANGED otherVars

InitSession ==
    /\ file \in SessionFiles
    /\ Constructed
    /\ pc = "start"
    /\ stages = <<>>
    /\ ret = "pending"
    /\ cdp_ret = "pending"
    /\ saved_csv = None
    /\ run = 1
    /\ report_html = NotRendered
    /\ tm = NoMoment
    /\ time_col = <<>>
    /\ time_out = <<>>
    /\ state_hist = <<>>
    /\ mr = NoRequest
    /\ lp = NoPagination

NextSession ==
    \/ LoadData
    \/ CheckDataQuality
    \/ CleanDates
    \/ CleanCategoricalFields
    \/ CleanNumericFields
    \/ RemoveDuplicates
    \/ CreateDerivedFeatures
    \/ FinalizeCleaning
    \/ GenerateCleaningReport
    \/ SaveRemovalReport
    \/ RunAgain
    \/ CallSaveRemovalReport

SpecSession == InitSession /\ [][NextSession]_vars

\* A call of _make_request with any retry allowance up to the bound.  The
\* loop is sequential code whose every step returns (session.get has a
\* timeout, time.sleep is finite), hence the weak fairness.
InitRequest ==
    /\ file = UnreadableFile
    /\ Constructed
    /\ pc = "start"
    /\ stages = <<>>
    /\ ret = "pending"
    /\ cdp_ret = "pending"
    /\ saved_csv = None
    /\ run = 1
    /\ report_html = NotRendered
    /\ tm = NoMoment
    /\ time_col = <<>>
    /\ time_out = <<>>
    /\ state_hist = <<>>
    /\ mr \in {[NoRequest EXCEPT !.pc = "loop", !.max_retries = n] :
                  n \in 0..MaxRetries}
    /\ lp = NoPagination

NextRequest ==
    \/ Attempt
    \/ FailedAfterRetries

SpecRequest == InitRequest /\ [][NextRequest]_vars /\ WF_vars(NextRequest)

\* A call of load_paginated for any requested total and page size up to the
\* bounds.  The loop is sequential code and _make_request returns (C26),
\* hence the weak fairness.
InitPaginated ==
    /\ file = UnreadableFile
    /\ Constructed
    /\ pc = "start"
    /\ stages = <<>>
    /\ ret = "pending"
    /\ cdp_ret = "pending"
    /\ saved_csv = None
    /\ run = 1
    /\ report_html = NotRendered
    /\ tm = NoMoment
    /\ time_col = <<>>
    /\ time_out = <<>>
    /\ state_hist = <<>>
    /\ mr = NoRequest
    /\ lp \in {[NoPagination EXCEPT !.pc = "loop", !.total_records = total,
                                    !.records_per_page = per_page] :
                  total \in 0..MaxTotalRecords, per_page \in 1..MaxPerPage}

NextPaginated ==
    \/ RequestPage
    \/ ReturnPaginated

SpecPaginated ==
    InitPaginated /\ [][NextPaginated]_vars /\ WF_vars(NextPaginated)

----------------------------------------------------------------------------
(* Vocabulary of the properties *)

\* the index labels of a table, in row order
Indexes(df) == [i \in 1..Len(df) |-> df[i].index]

\* the row of the input file that received index label k at load
SourceRow(k) == file.rows[k + 1]

HasParseableDate(k) == NotNull(to_datetime(SourceRow(k).issue_date))

FileIndexes == 0..(Len(file.rows) - 1)

\* the input rows that share the summons_number of input row k
SameSummons(k) ==
    {j \in FileIndexes : SourceRow(j).summons_number = SourceRow(k).summons_number}

IsLeast(k, S) == k \in S /\ \A j \in S : k <= j

\* the increasing sequence of the members of a set of index labels
RECURSIVE Ascending(_)
Ascending(S) ==
    IF S = {} THEN <<>>
    ELSE LET least == CHOOSE k \in S : \A j \in S : k <= j
         IN  <<least>> \o Ascending(S \ {least})

\* finalize_cleaning has stored its result
Finalized == NotNull(clean_df)

\* run_full_pipeline has returned the finalized table
Completed == pc = "done" /\ ret = "clean_df"

\* rows dropped by finalize_cleaning (before_count - after_count)
FinalizeStageRemoved == Len(Val(raw_df)) - Len(Val(clean_df))

----------------------------------------------------------------------------
(* C1 *)

\* C1: every row of the finalized table has a non-null summons_number, a
\* non-null issue_date and a non-null county.
C1_CriticalFieldsPresent ==
    Finalized =>
      \A i \in 1..Len(Val(clean_df)) :
         /\ NotNull(Val(clean_df)[i].summons_number)
         /\ NotNull(Val(clean_df)[i].issue_date)
         /\ NotNull(Val(clean_df)[i].county)

\* a completed run in which the finalizer kept a row and dropped another
C1_Witness ==
    /\ Completed
    /\ Len(Val(clean_df)) >= 1
    /\ FinalizeStageRemoved >= 1

(* C2 *)

\* C2: no two rows of the finalized table share a summons_number.
C2_SummonsUnique ==
    Finalized =>
      \A i, j \in 1..Len(Val(clean_df)) :
         i # j => Val(clean_df)[i].summons_number # Val(clean_df)[j].summons_number

\* a completed run on a file with two dated rows of one summons_number
C2_Witness ==
    /\ Completed
    /\ Len(Val(clean_df)) >= 1
    /\ \E j, k \in FileIndexes :
          /\ j # k
          /\ k \in SameSummons(j)
          /\ HasParseableDate(j) /\ HasParseableDate(k)

(* C3 *)

\* C3 as stated: the row retained for a summons_number is the first input
\* row, in load order, that carries it.
C3_FirstInLoadOrderRetained ==
    Finalized =>
      \A i \in 1..Len(Val(clean_df)) :
         IsLeast(Val(clean_df)[i].index, SameSummons(Val(clean_df)[i].index))

\* the cells of a finalized row that are carried or normalised from the input
CarriedFrom(row, src) ==
    /\ row.summons_number = src.summons_number
    /\ row.issue_date = to_datetime(src.issue_date)
    /\ row.violation_time = src.violation_time
    /\ row.state = UpperStrip(src.state)
    /\ row.county = borough_mapping(UpperStrip(src.county))
    /\ row.fine_amount = to_numeric(src.fine_amount)
    /\ row.plate = src.plate
    /\ row.violation_time_parsed = parse_time(src.violation_time)

\* C3 amended: the row retained for a summons_number is the first, in load
\* order, of the input rows with a parseable issue_date that carry it, and
\* every cell of it comes from that one input row.
C3_FirstParseableRetained ==
    Finalized =>
      \A i \in 1..Len(Val(clean_df)) :
         LET k == Val(clean_df)[i].index
         IN  /\ IsLeast(k, {j \in SameSummons(k) : HasParseableDate(j)})
             /\ CarriedFrom(Val(clean_df)[i], SourceRow(k))

\* a completed run that kept the first of two dated rows of one
\* summons_number whose other cells differ
C3_Witness ==
    /\ Completed
    /\ \E i \in 1..Len(Val(clean_df)) : \E j \in FileIndexes :
          LET k == Val(clean_df)[i].index
          IN  /\ k < j
              /\ j \in SameSummons(k)
              /\ HasParseableDate(j)
              /\ SourceRow(j).violation_time # SourceRow(k).violation_time

(* C4 *)

\* C4: final_records + duplicates_removed + invalid_dates_removed + the rows
\* dropped by finalize_cleaning equals initial_records.
C4_RetentionArithmetic ==
    Finalized =>
      cleaning_report.final_records + cleaning_report.duplicates_removed
        + cleaning_report.invalid_dates_removed + FinalizeStageRemoved
      = cleaning_report.initial_records

\* a completed run in which two different stages each removed a row
C4_Witness ==
    /\ Completed
    /\ \/ cleaning_report.invalid_dates_removed = 1 /\ FinalizeStageRemoved = 1
       \/ cleaning_report.duplicates_removed = 1 /\ FinalizeStageRemoved = 1

(* C5 *)

\* C5: after the run the removal log holds one record per removed row:
\* len(removed_rows) = initial_records - final_records.
C5_EveryRemovalLogged ==
    Completed =>
      /\ \A k \in FileIndexes :
            (\A i \in 1..Len(Val(clean_df)) : Val(clean_df)[i].index # k)
              => Cardinality({n \in 1..Len(removed_rows) :
                                removed_rows[n].index = k}) = 1
      /\ Len(removed_rows)
           = cleaning_report.initial_records - cleaning_report.final_records

(* C6 *)

IndexSet(df) == {df[i].index : i \in 1..Len(df)}

\* C6: the categorical, numeric and feature stages keep the rows and their
\* order; clean_dates keeps exactly the rows with a parseable issue_date,
\* whatever their violation_time; a row leaves remove_duplicates only when an
\* earlier row has its summons_number, and finalize_cleaning only when one of
\* its critical cells is null.
C6_SoftDefectsKeepRows ==
    [][ /\ pc \in {"dates", "categorical", "dedup"}
             => Indexes(Val(raw_df')) = Indexes(Val(raw_df))
        /\ pc = "assessed"
             => Indexes(Val(raw_df'))
                  = Ascending({k \in IndexSet(Val(raw_df)) : HasParseableDate(k)})
        /\ pc = "numeric"
             => \A i \in 1..Len(Val(raw_df)) :
                   Val(raw_df)[i].index \notin IndexSet(Val(raw_df'))
                     => \E j \in 1..(i - 1) :
                           Val(raw_df)[j].summons_number
                             = Val(raw_df)[i].summons_number
        /\ pc = "derived"
             => \A i \in 1..Len(Val(raw_df)) :
                   Val(raw_df)[i].index \notin IndexSet(Val(clean_df'))
                     => \/ IsNull(Val(raw_df)[i].summons_number)
                        \/ IsNull(Val(raw_df)[i].issue_date)
                        \/ IsNull(Val(raw_df)[i].county)
      ]_vars

\* a completed run whose finalized table holds a row with an unparseable
\* violation_time
C6_Witness ==
    /\ Completed
    /\ \E i \in 1..Len(Val(clean_df)) :
          /\ NotNull(Val(clean_df)[i].violation_time)
          /\ IsNull(Val(clean_df)[i].violation_time_parsed)
          /\ Val(clean_df)[i].time_of_day = "Unknown"

(* C7 *)

\* C7: when load_data fails, run_full_pipeline returns None after calling
\* nothing but load_data, the cleaner is as constructed, and
\* clean_data_pipeline returns None.
C7_LoadFailureAborts ==
    ~file.readable =>
      /\ Constructed
      /\ pc \in {"start", "done"}
      /\ pc = "start" => stages = <<>> /\ ret = "pending" /\ cdp_ret = "pending"
      /\ pc = "done" => /\ stages = <<"load_data">>
                        /\ ret = "None"
                        /\ cdp_ret \in {"pending", "None"}

\* clean_data_pipeline has returned None for an unreadable file
C7_Witness ==
    /\ ~file.readable
    /\ pc = "done"
    /\ cdp_ret = "None"

(* C8 *)

AllStages ==
    <<"load_data", "check_data_quality", "clean_dates",
      "clean_categorical_fields", "clean_numeric_fields", "remove_duplicates",
      "create_derived_features", "finalize_cleaning",
      "generate_cleaning_report", "save_removal_report">>

\* C8: a run that has ended either stopped at load_data and returned None,
\* or called every stage and returned the finalized table.
C8_RunAtomicity ==
    pc \in {"done", "raised"} =>
      \/ stages = <<"load_data">> /\ ret = "None"
      \/ stages = AllStages /\ ret = "clean_df"

(* C9 *)

\* C9: the separator-less and the colon encoding of one moment with a
\* meridiem letter give the same violation_time_parsed, violation_hour and
\* time_of_day.
C9_EncodingsAgree ==
    (time_out # <<>> /\ tm.meridiem \in MeridiemLetters) =>
      /\ time_out[1].violation_time_parsed = time_out[2].violation_time_parsed
      /\ time_out[1].violation_hour = time_out[2].violation_hour
      /\ time_out[1].time_of_day = time_out[2].time_of_day

\* "0230p" and "02:30p" were both parsed to "14:30"
C9_Witness ==
    /\ tm = [hours |-> 2, minutes |-> 30, meridiem |-> "p"]
    /\ time_col = <<Some(<<"0", "2", "3", "0", "p">>),
                    Some(<<"0", "2", ":", "3", "0", "p">>)>>
    /\ time_out # <<>>
    /\ time_out[1].violation_time_parsed = Some(<<"1", "4", ":", "3", "0">>)
    /\ time_out[2].violation_time_parsed = Some(<<"1", "4", ":", "3", "0">>)

(* C10 *)

\* the hour the claim prescribes for hour h under meridiem letter mer
ClaimedHour(h, mer) ==
    IF mer \in {"P", "p"} /\ h # 12 THEN h + 12
    ELSE IF mer \in {"A", "a"} /\ h = 12 THEN 0
    ELSE h

\* C10: the parsed hour is the input hour plus 12 exactly for P with hour
\* not 12, is 0 exactly for A with hour 12, and is the input hour otherwise
\* (also without a meridiem letter); the minutes are kept; "1200A" gives
\* "00:00", "1200P" gives "12:00" and "1159P" gives "23:59".
C10_MeridiemConversion ==
    time_out # <<>> =>
      /\ \A i \in 1..Len(time_out) :
            /\ time_out[i].violation_hour
                 = Some(ClaimedHour(tm.hours, tm.meridiem))
            /\ py_int(SplitSecond(Val(time_out[i].violation_time_parsed), ":"))
                 = Some(tm.minutes)
      /\ time_col[1] = Some(<<"1", "2", "0", "0", "A">>)
           => time_out[1].violation_time_parsed = Some(<<"0", "0", ":", "0", "0">>)
      /\ time_col[1] = Some(<<"1", "2", "0", "0", "P">>)
           => time_out[1].violation_time_parsed = Some(<<"1", "2", ":", "0", "0">>)
      /\ time_col[1] = Some(<<"1", "1", "5", "9", "P">>)
           => time_out[1].violation_time_parsed = Some(<<"2", "3", ":", "5", "9">>)

\* "1200A" was parsed to "00:00"
C10_Witness ==
    /\ time_col # <<>>
    /\ time_col[1] = Some(<<"1", "2", "0", "0", "A">>)
    /\ time_out # <<>>
    /\ time_out[1].violation_time_parsed = Some(<<"0", "0", ":", "0", "0">>)


----------------------------------------------------------------------------
(* C11 *)

\* "HH:MM": two digits, a colon, two digits
CanonicalHHMM(t) ==
    /\ Len(t) = 5
    /\ t[3] = ":"
    /\ \A i \in {1, 2, 4, 5} : t[i] \in Digits

HourOf(t) == DigitsValue(Slice(t, 0, 2))

MinuteOf(t) == DigitsValue(Slice(t, 3, 5))

\* C11: every violation_time_parsed that is not absent is a canonical HH:MM
\* with hour in 0..23 and minute in 0..59, every violation_hour that is not
\* absent is in 0..23, and a cell whose time is absent has an absent hour and
\* the time_of_day "Unknown".
C11_OutOfRangeYieldsAbsent ==
    \A i \in 1..Len(time_out) :
        LET out == time_out[i]
        IN  /\ NotNull(out.violation_time_parsed) =>
                  /\ CanonicalHHMM(Val(out.violation_time_parsed))
                  /\ HourOf(Val(out.violation_time_parsed)) \in 0..23
                  /\ MinuteOf(Val(out.violation_time_parsed)) \in 0..59
            /\ NotNull(out.violation_hour) => Val(out.violation_hour) \in 0..23
            /\ IsNull(out.violation_time_parsed) =>
                  /\ IsNull(out.violation_hour)
                  /\ out.time_of_day = "Unknown"

----------------------------------------------------------------------------
(* C12 *)

TimesOfDay == {"Morning", "Afternoon", "Evening", "Night", "Unknown"}

\* C12: time_of_day is determined by violation_hour: Morning for 5..11,
\* Afternoon for 12..16, Evening for 17..20, Night for 21..23 and 0..4,
\* Unknown exactly when the hour is absent, and never a sixth value.
C12_TimeOfDayBuckets ==
    \A i \in 1..Len(time_out) :
        LET hour == time_out[i].violation_hour
            tod == time_out[i].time_of_day
        IN  /\ tod \in TimesOfDay
            /\ (tod = "Unknown") <=> IsNull(hour)
            /\ NotNull(hour) =>
                  /\ Val(hour) \in 5..11 => tod = "Morning"
                  /\ Val(hour) \in 12..16 => tod = "Afternoon"
                  /\ Val(hour) \in 17..20 => tod = "Evening"
                  /\ Val(hour) \in (21..23) \cup (0..4) => tod = "Night"

\* a cell that parses to noon has been categorized
C12_Witness ==
    /\ time_out # <<>>
    /\ time_out[1].violation_hour = Some(12)
    /\ time_out[1].time_of_day = "Afternoon"

----------------------------------------------------------------------------
(* C13 *)

\* C13: violation_hour is present exactly when violation_time_parsed is
\* present and then is the number written before the colon; a column with a
\* parsed time has a violation_hour that is not null.
C13_HourFromParsedTime ==
    /\ \A i \in 1..Len(time_out) :
          LET out == time_out[i]
          IN  /\ NotNull(out.violation_hour) <=> NotNull(out.violation_time_parsed)
              /\ NotNull(out.violation_time_parsed) =>
                    LET t == Val(out.violation_time_parsed)
                    IN  Val(out.violation_hour)
                          = DigitsValue(Slice(t, 0, Find(t, ":") - 1))
    /\ (\E i \in 1..Len(time_out) : NotNull(time_out[i].violation_time_parsed))
          => \E i \in 1..Len(time_out) : NotNull(time_out[i].violation_hour)

\* a cell parsed to a time whose hour and minute differ
C13_Witness ==
    /\ time_out # <<>>
    /\ time_out[1].violation_time_parsed = Some(<<"2", "1", ":", "0", "9">>)
    /\ time_out[1].violation_hour = Some(21)


----------------------------------------------------------------------------
(* C14 *)

\* C14: every row of the finalized table has a state that is a valid state or
\* territory code or UNKNOWN, and is_ny_plate is TRUE exactly when that state
\* is NY.
C14_StateClosedVocabulary ==
    Finalized =>
        \A i \in 1..Len(Val(clean_df)) :
            LET row == Val(clean_df)[i]
            IN  /\ NotNull(row.state)
                /\ Val(row.state) \in valid_states \cup {UNKNOWN}
                /\ row.is_ny_plate <=> (row.state = Some(<<"N", "Y">>))

----------------------------------------------------------------------------
(* C15 *)

\* the resolution order as the claim words it, on a trimmed upper-case value
ClaimedState(val) ==
    IF val \in DOMAIN state_map THEN state_map[val]
    ELSE IF isdigit(val) \/ val = <<>> \/ Len(val) > 3 THEN UNKNOWN
    ELSE IF val \in valid_states THEN val
    ELSE IF Len(val) = 3 /\ SubSeq(val, 1, 2) \in valid_states
         THEN SubSeq(val, 1, 2)
    ELSE UNKNOWN

\* C15: the normalizer resolves a value, upper-cased and trimmed, to UNKNOWN
\* when it is numeric, empty or longer than three characters, otherwise by
\* exact valid-set match, then the typo table, then the first two of three
\* characters, then UNKNOWN; and every key of the typo table (N.Y, PENN,
\* CALIF, ...) resolves to the code the table gives it.
C15_GracefulDegradationOrder ==
    Len(state_hist) >= 2 =>
        \A i \in 1..Len(state_hist[1]) :
            NotNull(state_hist[1][i]) =>
                state_hist[2][i]
                    = Some(ClaimedState(strip(upper(Val(state_hist[1][i])))))

----------------------------------------------------------------------------
(* C16 *)

\* C16: a column whose cell is a valid code or UNKNOWN is returned unchanged
\* by the normalizer, and normalizing a column twice gives what normalizing
\* it once gives.
C16_StateNormalizationIdempotent ==
    /\ \A k \in 1..(Len(state_hist) - 1) :
          \A i \in 1..Len(state_hist[k]) :
              (/\ NotNull(state_hist[k][i])
               /\ Val(state_hist[k][i]) \in valid_states \cup {UNKNOWN})
                  => state_hist[k + 1][i] = state_hist[k][i]
    /\ Len(state_hist) >= 3 => state_hist[3] = state_hist[2]

\* a three-character value was truncated to a valid code by the first
\* application and left alone by the second
C16_Witness ==
    /\ Len(state_hist) = 3
    /\ state_hist[1] = <<Some(<<"N", "J", "9">>)>>
    /\ state_hist[2] = <<Some(<<"N", "J">>)>>
    /\ state_hist[3] = <<Some(<<"N", "J">>)>>


----------------------------------------------------------------------------
(* C17 *)

\* clean_categorical_fields has normalized the county column of raw_df
CountyNormalized ==
    pc \in {"categorical", "numeric", "dedup", "derived", "finalized",
            "reported", "done"}

\* the borough table as the claim words it, on a trimmed upper-case value
ClaimedBorough(u) ==
    CASE u \in {<<"M", "A", "N">>, <<"M", "H">>, <<"N", "Y">>} ->
             <<"M", "A", "N", "H", "A", "T", "T", "A", "N">>
      [] u = <<"B", "X">> -> <<"B", "R", "O", "N", "X">>
      [] u \in {<<"B", "K">>, <<"K">>} ->
             <<"B", "R", "O", "O", "K", "L", "Y", "N">>
      [] u \in {<<"Q">>, <<"Q", "N">>} -> <<"Q", "U", "E", "E", "N", "S">>
      [] u \in {<<"R">>, <<"S", "T">>} ->
             <<"S", "T", "A", "T", "E", "N", " ", "I", "S", "L", "A", "N", "D">>
      [] OTHER -> u

\* C17: after clean_categorical_fields a county that was null is null, any
\* other county is its trimmed upper-case text with the ten borough codes
\* replaced by the borough name and every other text left as it is, and
\* normalizing the normalized county again changes nothing.
C17_CountyNormalization ==
    CountyNormalized =>
        \A i \in 1..Len(Val(raw_df)) :
            LET row == Val(raw_df)[i]
                src == SourceRow(row.index).county
            IN  /\ IsNull(src) => IsNull(row.county)
                /\ NotNull(src) =>
                      row.county = Some(ClaimedBorough(strip(upper(Val(src)))))
                /\ CleanCounty(row).county = row.county

\* a padded lower-case code was mapped to its borough
C17_Witness ==
    /\ CountyNormalized
    /\ \E i \in 1..Len(Val(raw_df)) :
          /\ SourceRow(Val(raw_df)[i].index).county = Some(<<" ", "s", "t">>)
          /\ Val(raw_df)[i].county
                = Some(<<"S", "T", "A", "T", "E", "N", " ", "I", "S", "L", "A", "N", "D">>)

----------------------------------------------------------------------------
(* C18 *)

FineFlags == {"normal", "zero", "negative", "high"}

\* clean_numeric_fields has added fine_amount_flag to raw_df
FinesFlagged ==
    pc \in {"numeric", "dedup", "derived", "finalized", "reported", "done"}

\* C18: after clean_numeric_fields every row carries one of the four flags,
\* negative exactly for a fine below 0, zero exactly for a fine of 0, high
\* exactly for a fine above 500 and normal otherwise; an input row with
\* fine_amount "-20" that has its critical fields is in the finalized table
\* with the flag negative.
C18_FineAmountFlag ==
    /\ FinesFlagged =>
          \A i \in 1..Len(Val(raw_df)) :
              LET fine == Val(raw_df)[i].fine_amount
                  flag == Val(raw_df)[i].fine_amount_flag
              IN  /\ flag \in FineFlags
                  /\ (flag = "negative") <=> (NotNull(fine) /\ Val(fine) < 0)
                  /\ (flag = "zero") <=> (NotNull(fine) /\ Val(fine) = 0)
                  /\ (flag = "high") <=> (NotNull(fine) /\ Val(fine) > 500)
    /\ Finalized =>
          \A k \in FileIndexes :
              (/\ SourceRow(k).fine_amount = Some(<<"-", "2", "0">>)
               /\ NotNull(SourceRow(k).county))
                  => \E i \in 1..Len(Val(clean_df)) :
                        /\ Val(clean_df)[i].index = k
                        /\ Val(clean_df)[i].fine_amount = Some(0 - 20)
                        /\ Val(clean_df)[i].fine_amount_flag = "negative"

\* the run has returned a table that holds the row with the negative fine
C18_Witness ==
    /\ Completed
    /\ \E i \in 1..Len(Val(clean_df)) :
          /\ SourceRow(Val(clean_df)[i].index).fine_amount = Some(<<"-", "2", "0">>)
          /\ Val(clean_df)[i].fine_amount_flag = "negative"


----------------------------------------------------------------------------
(* C19 *)

\* a table with a column of plate values as they were read
HoldsUnmaskedPlate(df) ==
    \E i \in 1..Len(df) : "plate" \in DOMAIN df[i] /\ NotNull(df[i].plate)

\* C19: neither the finalized table nor the table written by
\* save_cleaned_data has a column that holds plate values unmasked.
C19_PlatePrivacy ==
    /\ Finalized => ~HoldsUnmaskedPlate(Val(clean_df))
    /\ NotNull(saved_csv) => ~HoldsUnmaskedPlate(Val(saved_csv))

----------------------------------------------------------------------------
(* C20 *)

\* the critical columns that are null in a row
NullCriticalFields(row) ==
    {c \in {"summons_number", "issue_date", "county"} : IsNull(row[c])}

\* the positions of the removed-row records written for index label k
RecordsOf(k) == {j \in 1..Len(removed_rows) : removed_rows[j].index = k}

\* C20: a row that finalize_cleaning dropped has exactly one removed-row
\* record, of step finalize_cleaning, whose reason lists each null critical
\* field of the row once and no other field; a row it kept has no record.
C20_FinalizerLogging ==
    Finalized =>
        \A i \in 1..Len(Val(raw_df)) :
            LET row == Val(raw_df)[i]
                recs == RecordsOf(row.index)
            IN  IF row.index \in IndexSet(Val(clean_df))
                THEN recs = {}
                ELSE /\ Cardinality(recs) = 1
                     /\ \A j \in recs :
                           LET fields == removed_rows[j].reason.fields
                           IN  /\ removed_rows[j].step = "finalize_cleaning"
                               /\ {fields[n] : n \in 1..Len(fields)}
                                     = NullCriticalFields(row)
                               /\ Len(fields) = Cardinality(NullCriticalFields(row))
                               /\ fields # <<>>

\* a row without summons_number and county was dropped and logged with both
\* names, next to a row that was kept
C20_Witness ==
    /\ Finalized
    /\ Len(Val(clean_df)) = 1
    /\ \E j \in 1..Len(removed_rows) :
          removed_rows[j].reason.fields = <<"summons_number", "county">>


----------------------------------------------------------------------------
(* C21 *)

\* C21: a run on a table without a violation_time column raises nothing, and
\* its finalized table holds every row with a parseable date and its critical
\* fields, each with violation_time_parsed and violation_hour absent and
\* time_of_day "Unknown".
C21_AbsentTimeColumnDegrades ==
    ~HasViolationTime =>
        /\ pc # "raised"
        /\ ret # "exception"
        /\ Finalized =>
              \A i \in 1..Len(Val(clean_df)) :
                  /\ IsNull(Val(clean_df)[i].violation_time_parsed)
                  /\ IsNull(Val(clean_df)[i].violation_hour)
                  /\ Val(clean_df)[i].time_of_day = "Unknown"
        /\ Completed =>
              \A k \in FileIndexes :
                  (/\ HasParseableDate(k)
                   /\ NotNull(SourceRow(k).county)
                   /\ NotNull(SourceRow(k).summons_number)
                   /\ IsLeast(k, {j \in SameSummons(k) : HasParseableDate(j)}))
                      => k \in IndexSet(Val(clean_df))


----------------------------------------------------------------------------
(* C22 *)

\* the columns of a table (those of its first row; none for an empty table)
Columns(df) == IF df = <<>> THEN {} ELSE DOMAIN df[1]

\* the stage that runs next, by the position of the run
NextStage ==
    CASE pc = "start" -> "load_data"
      [] pc = "loaded" -> "check_data_quality"
      [] pc = "assessed" -> "clean_dates"
      [] pc = "dates" -> "clean_categorical_fields"
      [] pc = "categorical" -> "clean_numeric_fields"
      [] pc = "numeric" -> "remove_duplicates"
      [] pc = "dedup" -> "create_derived_features"
      [] pc = "derived" -> "finalize_cleaning"
      [] pc = "finalized" -> "generate_cleaning_report"
      [] pc = "reported" -> "save_removal_report"
      [] OTHER -> "none"

\* the columns a stage reads that an earlier stage has to create, and the
\* stage that creates them
DerivedColumnsRead(stage) ==
    IF stage = "create_derived_features"
    THEN {[column |-> "violation_hour", created_by |-> "clean_dates"]}
    ELSE {}

StagesRun == {stages[n] : n \in 1..Len(stages)}

\* C22: the stages of a run are called one after the other in the order load,
\* quality assessment, dates, categorical, numeric, deduplication, features,
\* finalization, report; finalize_cleaning is called only after the five
\* cleaning stages before it; and when a stage is about to run, the stage
\* that creates a column it reads has run and the column is in the table.
C22_StageOrdering ==
    /\ Len(stages) <= Len(AllStages)
    /\ stages = SubSeq(AllStages, 1, Len(stages))
    /\ "finalize_cleaning" \in StagesRun =>
          {"clean_dates", "clean_categorical_fields", "clean_numeric_fields",
           "remove_duplicates", "create_derived_features"} \subseteq StagesRun
    /\ \A read \in DerivedColumnsRead(NextStage) :
          /\ read.created_by \in StagesRun
          /\ Val(raw_df) # <<>> => read.column \in Columns(Val(raw_df))

\* a run has called every stage and returned
C22_Witness ==
    /\ Completed
    /\ stages = AllStages
    /\ Len(Val(clean_df)) > 0


----------------------------------------------------------------------------
(* C23 *)

\* C23: whenever the removal log is empty, a rendering of the removal report
\* has completed without a division by zero, and every percentage of its
\* by-step and by-reason tables is 0.
C23_EmptyLogRenders ==
    (removed_rows = <<>> /\ report_html.status # "none") =>
        /\ report_html.status = "rendered"
        /\ \A st \in DOMAIN report_html.by_step : report_html.by_step[st].pct = 0
        /\ \A rs \in DOMAIN report_html.by_reason :
              report_html.by_reason[rs].pct = 0

----------------------------------------------------------------------------
(* C24 *)

\* C24: when a run has returned, the counters and the removal log are those
\* of that run: initial_records is the size of its file,
\* invalid_dates_removed the number of its rows without a parseable date, the
\* four counters and the rows dropped by its finalize_cleaning add up, and
\* the log has one record per row that its finalize_cleaning dropped.
C24_ReportDescribesLatestRun ==
    Completed =>
        /\ cleaning_report.initial_records = Len(file.rows)
        /\ cleaning_report.final_records = Len(Val(clean_df))
        /\ cleaning_report.invalid_dates_removed
              = Cardinality({k \in FileIndexes : ~HasParseableDate(k)})
        /\ cleaning_report.final_records + cleaning_report.duplicates_removed
              + cleaning_report.invalid_dates_removed + FinalizeStageRemoved
              = cleaning_report.initial_records
        /\ Len(removed_rows) = FinalizeStageRemoved

----------------------------------------------------------------------------
(* C25 *)

\* C25: every step of the stages and of the report rendering leaves the
\* records of the removal log where they are and as they are; the log of
\* before is a prefix of the log of after.
C25_RemovalLogAppendOnly ==
    [][ /\ Len(removed_rows') >= Len(removed_rows)
        /\ SubSeq(removed_rows', 1, Len(removed_rows)) = removed_rows ]_vars

\* the second run on a cleaner has appended a record behind the record of
\* the first run
C25_Witness ==
    /\ run = 2
    /\ pc = "finalized"
    /\ Len(removed_rows) = 2

----------------------------------------------------------------------------
(* C26 *)

\* The attempts that ended in a 429 response or a timeout.
EndedInRetry(outcome) ==
    \/ outcome.kind = "response" /\ outcome.status_code = 429
    \/ outcome.kind = "Timeout"

\* What the claim says of a call at any moment: no more than max_retries
\* attempts; an attempt follows only 429s and timeouts; a returned call
\* gave the body of the 200 that ended it, or None after an attempt that
\* ended otherwise (another status, a non-timeout exception), or None after
\* max_retries attempts that all ended in a 429 or a timeout.
RequestWithinRetries ==
    LET n == Len(mr.outcomes)
    IN /\ n <= mr.max_retries
       /\ \A i \in 1..(n - 1) : EndedInRetry(mr.outcomes[i])
       /\ mr.pc = "loop" => \A i \in 1..n : EndedInRetry(mr.outcomes[i])
       /\ mr.pc = "returned" =>
             IF n > 0 /\ ~EndedInRetry(mr.outcomes[n])
             THEN LET last == mr.outcomes[n]
                  IN IF /\ last.kind = "response"
                        /\ last.status_code = 200
                        /\ NotNull(last.json)
                     THEN mr.result = last.json
                     ELSE mr.result = None
             ELSE n = mr.max_retries /\ mr.result = None

\* C26: _make_request makes at most max_retries attempts, retries only after
\* a 429 or a timeout, returns the JSON body of the first 200, returns None
\* at once on any other status or non-timeout exception, returns None once
\* max_retries attempts all ended in 429 or timeout, and always returns.
C26_RequestBoundedAndTerminates ==
    /\ []RequestWithinRetries
    /\ <>(mr.pc = "returned")

\* A call that was rate limited, then timed out, then got its 200.
C26_Witness ==
    /\ mr.pc = "returned"
    /\ mr.max_retries = 3
    /\ mr.outcomes = <<Response(429, None), Raised("Timeout"),
                       Response(200, Some(<<1>>))>>
    /\ mr.result = Some(<<1>>)

----------------------------------------------------------------------------
(* C27 *)

\* The claim's proviso: no response held more rows than its request's $limit.
ResponsesWithinLimit ==
    \A i \in 1..Len(lp.requests) :
        NotNull(lp.requests[i].data)
            => Len(Val(lp.requests[i].data)) <= lp.requests[i].limit

\* A page that ends the loading: failed, empty, or shorter than requested.
LastPage(request) ==
    \/ IsNull(request.data)
    \/ Val(request.data) = <<>>
    \/ Len(Val(request.data)) < request.limit

\* What the claim says of a call at any moment: each request's $offset is
\* the number of rows accumulated before it and its $limit is
\* min(remaining, records_per_page); no request follows a failed, empty or
\* short page; there are no more requests than rows asked for; and no more
\* rows are held than total_records.
PaginationBounded ==
    /\ lp.offset = Len(lp.all_data)
    /\ \A i \in 1..Len(lp.requests) :
          LET request == lp.requests[i]
          IN /\ request.offset = request.before
             /\ request.limit = Min(lp.total_records - request.before,
                                    lp.records_per_page)
             /\ LastPage(request) => i = Len(lp.requests) /\ lp.pc # "loop"
    /\ Len(lp.requests) <= lp.total_records
    /\ Len(lp.all_data) <= lp.total_records
    /\ NotNull(lp.result) => Len(Val(lp.result)) <= lp.total_records

\* C27: provided every response holds at most the requested $limit rows,
\* load_paginated asks each time for min(remaining, records_per_page) rows at
\* the offset equal to the rows accumulated, stops at the first empty, failed
\* or short page, never holds more than total_records rows, and returns
\* after finitely many requests.
C27_PaginationBoundedAndTerminates ==
    /\ [](ResponsesWithinLimit => PaginationBounded)
    /\ <>(lp.pc = "returned")

\* Four rows loaded three per page: a full page of three, then a page of one.
C27_Witness ==
    /\ lp.pc = "returned"
    /\ lp.total_records = 4
    /\ lp.records_per_page = 3
    /\ Len(lp.requests) = 2
    /\ lp.requests[1].limit = 3 /\ lp.requests[1].offset = 0
    /\ lp.requests[2].limit = 1 /\ lp.requests[2].offset = 3
    /\ lp.result = Some(<<1, 2, 3, 4>>)

----------------------------------------------------------------------------
(* C28 *)

\* The input rows the claim names: a parseable issue_date, first of their
\* summons_number among the rows with a parseable issue_date, and neither
\* summons_number nor county missing.
FirstDatedComplete ==
    {k \in FileIndexes :
        /\ HasParseableDate(k)
        /\ IsLeast(k, {j \in SameSummons(k) : HasParseableDate(j)})
        /\ NotNull(SourceRow(k).summons_number)
        /\ NotNull(SourceRow(k).county)}

\* C28: the finalized output is exactly the rows that have a parseable
\* issue_date, are the first dated row of their summons_number, and have
\* summons_number and county; a later row of a summons_number whose first
\* dated row the finalizer dropped is never in the output.
C28_NoPromotionOfLaterDuplicates ==
    Finalized =>
        {Val(clean_df)[i].index : i \in 1..Len(Val(clean_df))}
            = FirstDatedComplete

\* A finalized run on two dated rows of one summons_number, the first
\* without a county and the second complete: the output is empty.
C28_Witness ==
    /\ Finalized
    /\ Len(file.rows) = 2
    /\ HasParseableDate(0) /\ HasParseableDate(1)
    /\ NotNull(SourceRow(0).summons_number)
    /\ SourceRow(1).summons_number = SourceRow(0).summons_number
    /\ IsNull(SourceRow(0).county)
    /\ NotNull(SourceRow(1).county)
    /\ Val(clean_df) = <<>>

----------------------------------------------------------------------------
(* C29 *)

\* The input rows with a parseable issue_date and no summons_number.
NullKeyDated ==
    {k \in FileIndexes :
        HasParseableDate(k) /\ IsNull(SourceRow(k).summons_number)}

\* The dated input rows that follow a dated row of the same summons_number.
DatedDuplicates ==
    {k \in FileIndexes :
        /\ HasParseableDate(k)
        /\ ~IsLeast(k, {j \in SameSummons(k) : HasParseableDate(j)})}

\* C29: when several dated rows have no summons_number, remove_duplicates
\* removes all of them but the first and counts them in duplicates_removed,
\* and finalize_cleaning drops that first one and logs it, once, as missing
\* summons_number; the others get no record.
C29_NullKeysDeduplicatedAsGroup ==
    Cardinality(NullKeyDated) >= 2 =>
        /\ ("remove_duplicates" \in StagesRun /\ NotNull(raw_df)) =>
              /\ \A i \in 1..Len(Val(raw_df)) :
                    IsNull(Val(raw_df)[i].summons_number)
                        => IsLeast(Val(raw_df)[i].index, NullKeyDated)
              /\ \E i \in 1..Len(Val(raw_df)) :
                    IsLeast(Val(raw_df)[i].index, NullKeyDated)
              /\ cleaning_report.duplicates_removed
                    = Cardinality(DatedDuplicates)
              /\ cleaning_report.duplicates_removed
                    >= Cardinality(NullKeyDated) - 1
        /\ Finalized =>
              \A k \in NullKeyDated :
                  IF IsLeast(k, NullKeyDated)
                  THEN /\ k \notin IndexSet(Val(clean_df))
                       /\ Cardinality(RecordsOf(k)) = 1
                       /\ \A j \in RecordsOf(k) :
                             /\ removed_rows[j].step = "finalize_cleaning"
                             /\ \E n \in 1..Len(removed_rows[j].reason.fields) :
                                   removed_rows[j].reason.fields[n]
                                       = "summons_number"
                  ELSE RecordsOf(k) = {}

\* A finalized run on two dated rows without summons_number: one counted as
\* a duplicate, the other dropped and logged by the finalizer.
C29_Witness ==
    /\ Finalized
    /\ NullKeyDated = {0, 1}
    /\ cleaning_report.duplicates_removed = 1
    /\ Len(removed_rows) = 1
    /\ removed_rows[1].index = 0
    /\ removed_rows[1].step = "finalize_cleaning"

----------------------------------------------------------------------------
(* C30 *)

\* The rows of the pages received, in the order of the requests.
RECURSIVE RowsReceived(_)
RowsReceived(requests) ==
    IF requests = <<>>
    THEN <<>>
    ELSE LET last == requests[Len(requests)]
         IN RowsReceived(SubSeq(requests, 1, Len(requests) - 1))
                \o (IF IsNull(last.data) THEN <<>> ELSE Val(last.data))

\* C30: a returned load_paginated gives None exactly when no page returned
\* any row; otherwise, also when its last request failed or came back empty,
\* it gives the rows accumulated so far as an ordinary result.
C30_PartialPaginationResult ==
    lp.pc = "returned" =>
        IF RowsReceived(lp.requests) = <<>>
        THEN lp.result = None
        ELSE lp.result = Some(RowsReceived(lp.requests))

\* Four rows asked two per page: the first page arrives, the second fails.
C30_Witness ==
    /\ lp.pc = "returned"
    /\ lp.total_records = 4
    /\ lp.records_per_page = 2
    /\ Len(lp.requests) = 2
    /\ lp.requests[1].data = Some(<<1, 2>>)
    /\ lp.requests[2].data = None
    /\ lp.result = Some(<<1, 2>>)

====
